---- MODULE Spec2Model ----
(***************************************************************************)
(* android-linkify-js: link gathering (gatherLinks, makeUrl), overlap      *)
(* resolution (pruneOverlaps) and the two entry points addAutoLinks and    *)
(* addLinks, together with the process-wide state they touch: the          *)
(* lastIndex of the two shared global RegExp objects and the logError      *)
(* handler of log.ts.                                                      *)
(*                                                                         *)
(* A string is a sequence of one-character strings.  u202C, u202D and      *)
(* u202E stand for the three bidirectional control code points.  Offsets   *)
(* are 0-based as in the source; Sequences are 1-based, so s.charAt(p) is   *)
(* s[p + 1].                                                               *)
(***************************************************************************)
EXTENDS Integers, Sequences, FiniteSets, TLC

VARIABLES
    pc,                      \* position of the driver: idle / ready / pruned / done
    AUTOLINK_WEB_URL,        \* source of the shared web-URL RegExp (patterns.ts)
    AUTOLINK_EMAIL_ADDRESS,  \* source of the shared email RegExp (patterns.ts)
    lastIndex,               \* lastIndex of each of the two global RegExp objects
    logErrorF,               \* log.ts: TRUE when a handler is installed
    call,                    \* the operation called last and its arguments
    ret                      \* what that operation returned and did

vars == <<pc, AUTOLINK_WEB_URL, AUTOLINK_EMAIL_ADDRESS, lastIndex, logErrorF, call, ret>>

(***************************************************************************)
(* Bounds of the model.                                                    *)
(***************************************************************************)
MaxTextLen == 3      \* longest text drawn for a single addAutoLinks call
MaxPos == 6          \* largest end offset of an annotation handed to pruneOverlaps
MaxLinks == 3        \* longest list handed to pruneOverlaps on its own
MaxUrlLen == 3       \* longest matched text handed to makeUrl on its own
MaxPrefixes == 2     \* longest prefix list handed to makeUrl on its own
MaxTokens == 3       \* most tokens in a text that carries schemes
MaxSweepPos == 4     \* largest offset of an annotation of a stepped sweep

Min(S) == CHOOSE x \in S : \A y \in S : x <= y

SeqsUpTo(S, n) == UNION {[1..k -> S] : k \in 0..n}

Contains(s, c) == \E k \in 1..Len(s) : s[k] = c

(***************************************************************************)
(* Program constants.                                                      *)
(***************************************************************************)
WEB_URLS == 1
EMAIL_ADDRESSES == 2

\* JavaScript's & on the non-negative masks used here
RECURSIVE BitAnd(_, _)
BitAnd(x, y) ==
    IF x = 0 \/ y = 0 THEN 0
    ELSE (IF x % 2 = 1 /\ y % 2 = 1 THEN 1 ELSE 0) + 2 * BitAnd(x \div 2, y \div 2)

\* JavaScript's | : x + y less the bits they share
BitOr(x, y) == x + y - BitAnd(x, y)

ALL == BitOr(WEB_URLS, EMAIL_ADDRESSES)

WebSchemes == << <<"h","t","t","p",":","/","/">>,
                 <<"h","t","t","p","s",":","/","/">>,
                 <<"r","t","s","p",":","/","/">> >>

EmailSchemes == << <<"m","a","i","l","t","o",":">> >>

MsgU202C == "Unsupported character for applying links: u202C"
MsgU202D == "Unsupported character for applying links: u202D"
MsgU202E == "Unsupported character for applying links: u202E"

(***************************************************************************)
(* Characters.  Letters come in two cases; the rest are caseless.          *)
(***************************************************************************)
LowerOf == [c \in {"A", "B", "H", "T", "P", "S", "M", "R"} |->
              CASE c = "A" -> "a" [] c = "B" -> "b" [] c = "H" -> "h"
                [] c = "T" -> "t" [] c = "P" -> "p" [] c = "S" -> "s"
                [] c = "M" -> "m" [] c = "R" -> "r"]

\* String.prototype.toLowerCase on one character
ToLowerChar(c) == IF c \in DOMAIN LowerOf THEN LowerOf[c] ELSE c

ToLowerCase(s) == [k \in 1..Len(s) |-> ToLowerChar(s[k])]

\* x.localeCompare(y, undefined, {sensitivity: 'accent'}) === 0 :
\* equal up to the case of the letters
AccentEqual(x, y) == ToLowerCase(x) = ToLowerCase(y)

\* x.localeCompare(y, undefined, {sensitivity: 'case'}) === 0 :
\* same letters in the same case
CaseEqual(x, y) == x = y

\* s.substring(from) and s.substring(0, to), 0-based
SubstringFrom(s, from) == SubSeq(s, from + 1, Len(s))
SubstringTo(s, to) == SubSeq(s, 1, to)

(***************************************************************************)
(* The Pattern Provider: a global RegExp whose source is an ordered        *)
(* alternation of literal words, /w1|w2/g.  exec scans from lastIndex,     *)
(* returns the leftmost match (first alternative that fits there) and      *)
(* moves lastIndex behind it; when nothing matches it returns null and     *)
(* resets lastIndex to 0.                                                  *)
(***************************************************************************)
MatchAt(word, s, p) ==
    /\ p + Len(word) <= Len(s)
    /\ \A k \in 1..Len(word) : s[p + k] = word[k]

Exec(pattern, s, li) ==
    LET starts == {p \in li..Len(s) : \E j \in 1..Len(pattern) : MatchAt(pattern[j], s, p)}
    IN  IF starts = {}
        THEN [found |-> FALSE, index |-> 0, text |-> <<>>, lastIndex |-> 0]
        ELSE LET p == Min(starts)
                 j == Min({j \in 1..Len(pattern) : MatchAt(pattern[j], s, p)})
             IN  [found |-> TRUE, index |-> p, text |-> pattern[j],
                  lastIndex |-> p + Len(pattern[j])]

(***************************************************************************)
(* Match filters and transform filters, named by the value passed.         *)
(***************************************************************************)
\* mutant of sUrlMatchFilter: looks at the first character of the match
sUrlMatchFilterAtStart(s, start, end) ==
    IF start = 0 THEN TRUE
    ELSE IF s[start + 1] = "@" THEN FALSE
    ELSE TRUE

sUrlMatchFilter(s, start, end) ==
    IF start = 0 THEN TRUE
    ELSE IF s[start] = "@" THEN FALSE    \* s.charAt(start - 1)
    ELSE TRUE

MatchFilter(f, s, start, end) ==
    IF f = "undefined" THEN TRUE ELSE sUrlMatchFilter(s, start, end)

\* A caller's transform in the manner of sPhoneNumberTransformFilter, which
\* keeps digits and plus signs only: this one drops every '@'.
RECURSIVE StripAt(_)
StripAt(url) ==
    IF url = <<>> THEN <<>>
    ELSE IF Head(url) = "@" THEN StripAt(Tail(url))
    ELSE <<Head(url)>> \o StripAt(Tail(url))

TransformFilter(f, url) == IF f = "stripAt" THEN StripAt(url) ELSE url

(***************************************************************************)
(* makeUrl                                                                 *)
(***************************************************************************)
\* mutant of MakeUrlScan: the break is missing, so every later prefix that
\* fits rewrites the leading characters again
RECURSIVE MakeUrlScanNoBreak(_, _, _)
MakeUrlScanNoBreak(url, prefixes, i) ==
    IF i > Len(prefixes) THEN [hasPrefix |-> FALSE, url |-> url]
    ELSE IF Len(url) < Len(prefixes[i]) THEN MakeUrlScanNoBreak(url, prefixes, i + 1)
    ELSE LET urlPrefixRange == SubstringTo(url, Len(prefixes[i]))
             fixed == IF AccentEqual(urlPrefixRange, prefixes[i])
                         /\ ~CaseEqual(urlPrefixRange, prefixes[i])
                      THEN prefixes[i] \o SubstringFrom(url, Len(prefixes[i]))
                      ELSE url
             rest == MakeUrlScanNoBreak(fixed, prefixes, i + 1)
         IN  [hasPrefix |-> AccentEqual(urlPrefixRange, prefixes[i]) \/ rest.hasPrefix,
              url |-> rest.url]

\* mutant of MakeUrlScan: a recognised prefix is left in the casing of the text
RECURSIVE MakeUrlScanKeepCase(_, _, _)
MakeUrlScanKeepCase(url, prefixes, i) ==
    IF i > Len(prefixes) THEN [hasPrefix |-> FALSE, url |-> url]
    ELSE IF Len(url) < Len(prefixes[i]) THEN MakeUrlScanKeepCase(url, prefixes, i + 1)
    ELSE IF AccentEqual(SubstringTo(url, Len(prefixes[i])), prefixes[i])
         THEN [hasPrefix |-> TRUE, url |-> url]
         ELSE MakeUrlScanKeepCase(url, prefixes, i + 1)

\* the for loop over prefixes, from index i (1-based here)
RECURSIVE MakeUrlScan(_, _, _)
MakeUrlScan(url, prefixes, i) ==
    IF i > Len(prefixes) THEN [hasPrefix |-> FALSE, url |-> url]
    ELSE IF Len(url) < Len(prefixes[i]) THEN MakeUrlScan(url, prefixes, i + 1)
    ELSE LET urlPrefixRange == SubstringTo(url, Len(prefixes[i]))
         IN  IF AccentEqual(urlPrefixRange, prefixes[i])
             THEN [hasPrefix |-> TRUE,
                   url |-> IF ~CaseEqual(urlPrefixRange, prefixes[i])
                           THEN prefixes[i] \o SubstringFrom(url, Len(prefixes[i]))
                           ELSE url]
             ELSE MakeUrlScan(url, prefixes, i + 1)

\* mutant of MakeUrl: the first prefix is prepended whether or not one was
\* recognised
MakeUrlAlwaysPrepend(url, prefixes, filter) ==
    LET u == IF filter # "undefined" THEN TransformFilter(filter, url) ELSE url
        r == MakeUrlScan(u, prefixes, 1)
    IN  IF Len(prefixes) > 0
        THEN prefixes[1] \o r.url
        ELSE r.url

\* mutant of MakeUrl: the default scheme is never prepended
MakeUrlNoDefault(url, prefixes, filter) ==
    LET u == IF filter # "undefined" THEN TransformFilter(filter, url) ELSE url
    IN  MakeUrlScan(u, prefixes, 1).url

MakeUrl(url, prefixes, filter) ==
    LET u == IF filter # "undefined" THEN TransformFilter(filter, url) ELSE url
        r == MakeUrlScan(u, prefixes, 1)
    IN  IF ~r.hasPrefix /\ Len(prefixes) > 0
        THEN prefixes[1] \o r.url
        ELSE r.url

(***************************************************************************)
(* gatherLinks: the exec loop over one pattern.  Returns the list, the     *)
(* pattern's lastIndex when the loop ends and the number of exec calls.    *)
(***************************************************************************)
\* mutant of GatherLoop: a match the filter rejects ends the loop instead of
\* being skipped
RECURSIVE GatherLoopReturn(_, _, _, _, _, _, _, _)
GatherLoopReturn(links, s, pattern, li, schemes, matchFilter, transformFilter, n) ==
    LET m == Exec(pattern, s, li)
    IN  IF ~m.found
        THEN [links |-> links, lastIndex |-> m.lastIndex, execs |-> n + 1]
        ELSE LET start == m.index
                 end == start + Len(m.text)
             IN  IF matchFilter = "undefined" \/ MatchFilter(matchFilter, s, start, end)
                 THEN GatherLoopReturn(
                          Append(links, [url |-> MakeUrl(m.text, schemes, transformFilter),
                                         start |-> start, end |-> end]),
                          s, pattern, m.lastIndex, schemes, matchFilter, transformFilter, n + 1)
                 ELSE [links |-> links, lastIndex |-> m.lastIndex, execs |-> n + 1]

\* mutant of GatherLoop: end is the offset of the last character matched
RECURSIVE GatherLoopLastChar(_, _, _, _, _, _, _, _)
GatherLoopLastChar(links, s, pattern, li, schemes, matchFilter, transformFilter, n) ==
    LET m == Exec(pattern, s, li)
    IN  IF ~m.found
        THEN [links |-> links, lastIndex |-> m.lastIndex, execs |-> n + 1]
        ELSE LET start == m.index
                 end == start + Len(m.text) - 1
                 next == IF matchFilter = "undefined" \/ MatchFilter(matchFilter, s, start, end)
                         THEN Append(links, [url |-> MakeUrl(m.text, schemes, transformFilter),
                                             start |-> start, end |-> end])
                         ELSE links
             IN  GatherLoopLastChar(next, s, pattern, m.lastIndex, schemes,
                                    matchFilter, transformFilter, n + 1)

RECURSIVE GatherLoop(_, _, _, _, _, _, _, _)
GatherLoop(links, s, pattern, li, schemes, matchFilter, transformFilter, n) ==
    LET m == Exec(pattern, s, li)
    IN  IF ~m.found
        THEN [links |-> links, lastIndex |-> m.lastIndex, execs |-> n + 1]
        ELSE LET start == m.index
                 end == start + Len(m.text)
                 next == IF matchFilter = "undefined" \/ MatchFilter(matchFilter, s, start, end)
                         THEN Append(links, [url |-> MakeUrl(m.text, schemes, transformFilter),
                                             start |-> start, end |-> end])
                         ELSE links
             IN  GatherLoop(next, s, pattern, m.lastIndex, schemes,
                            matchFilter, transformFilter, n + 1)

GatherLinks(links, s, pattern, li, schemes, matchFilter, transformFilter) ==
    GatherLoop(links, s, pattern, li, schemes, matchFilter, transformFilter, 0)

(***************************************************************************)
(* pruneOverlaps                                                           *)
(***************************************************************************)
\* the comparator c
CompareLinks(a, b) ==
    IF a.start < b.start THEN -1
    ELSE IF a.start > b.start THEN 1
    ELSE IF a.end < b.end THEN 1
    ELSE IF a.end > b.end THEN -1
    ELSE 0

\* links.sort(c): Array.prototype.sort is stable, so an element goes behind
\* every element it does not precede
\* mutant of InsertLink: an element goes before the elements it compares
\* equal to, as a sort that is not stable may leave it
RECURSIVE InsertLinkBeforeEqual(_, _)
InsertLinkBeforeEqual(x, sorted) ==
    IF sorted = <<>> THEN <<x>>
    ELSE IF CompareLinks(x, Head(sorted)) <= 0 THEN <<x>> \o sorted
    ELSE <<Head(sorted)>> \o InsertLinkBeforeEqual(x, Tail(sorted))

RECURSIVE InsertLink(_, _)
InsertLink(x, sorted) ==
    IF sorted = <<>> THEN <<x>>
    ELSE IF CompareLinks(x, Head(sorted)) < 0 THEN <<x>> \o sorted
    ELSE <<Head(sorted)>> \o InsertLink(x, Tail(sorted))

RECURSIVE SortFrom(_, _, _)
SortFrom(links, k, acc) ==
    IF k > Len(links) THEN acc ELSE SortFrom(links, k + 1, InsertLink(links[k], acc))

\* mutant of SortLinks: the list is swept as gathered
SortLinksNone(links) == links

SortLinks(links) == SortFrom(links, 1, <<>>)

\* mutant of Splice: links.splice(remove, 2)
SpliceTwo(links, remove) ==
    SubSeq(links, 1, remove) \o SubSeq(links, remove + 3, Len(links))

\* links.splice(remove, 1), remove 0-based
Splice(links, remove) ==
    SubSeq(links, 1, remove) \o SubSeq(links, remove + 2, Len(links))

\* mutant of RemoveIndex: the containing annotation loses
RemoveIndexContaining(a, b, i) ==
    IF (a.start <= b.start) /\ (a.end > b.start)
    THEN IF b.end <= a.end THEN i
         ELSE IF (a.end - a.start) > (b.end - b.start) THEN i + 1
         ELSE IF (a.end - a.start) < (b.end - b.start) THEN i
         ELSE -1
    ELSE -1

\* mutant of RemoveIndex: of two annotations that overlap in part the longer
\* loses
RemoveIndexLonger(a, b, i) ==
    IF (a.start <= b.start) /\ (a.end > b.start)
    THEN IF b.end <= a.end THEN i + 1
         ELSE IF (a.end - a.start) > (b.end - b.start) THEN i
         ELSE IF (a.end - a.start) < (b.end - b.start) THEN i + 1
         ELSE -1
    ELSE -1

\* mutant of RemoveIndex: a tie in length goes to the earlier annotation
RemoveIndexTie(a, b, i) ==
    IF (a.start <= b.start) /\ (a.end > b.start)
    THEN IF b.end <= a.end THEN i + 1
         ELSE IF (a.end - a.start) >= (b.end - b.start) THEN i + 1
         ELSE IF (a.end - a.start) < (b.end - b.start) THEN i
         ELSE -1
    ELSE -1

\* mutant of RemoveIndex: in a conflict the later annotation loses
RemoveIndexLater(a, b, i) ==
    IF (a.start <= b.start) /\ (a.end > b.start)
    THEN i + 1
    ELSE -1

\* mutant of RemoveIndex: annotations that touch are in conflict
RemoveIndexTouching(a, b, i) ==
    IF (a.start <= b.start) /\ (a.end >= b.start)
    THEN IF b.end <= a.end THEN i + 1
         ELSE IF (a.end - a.start) > (b.end - b.start) THEN i + 1
         ELSE IF (a.end - a.start) < (b.end - b.start) THEN i
         ELSE -1
    ELSE -1

\* which index the pair (links[i], links[i + 1]) loses, or -1
RemoveIndex(a, b, i) ==
    IF (a.start <= b.start) /\ (a.end > b.start)
    THEN IF b.end <= a.end THEN i + 1
         ELSE IF (a.end - a.start) > (b.end - b.start) THEN i + 1
         ELSE IF (a.end - a.start) < (b.end - b.start) THEN i
         ELSE -1
    ELSE -1

\* mutant of Sweep: the annotation that wins a conflict takes over the end
\* of the one it displaces
RECURSIVE SweepMerging(_, _)
SweepMerging(links, i) ==
    IF ~(i < Len(links) - 1) THEN links
    ELSE LET remove == RemoveIndex(links[i + 1], links[i + 2], i)
             keep == IF remove = i THEN i + 2 ELSE i + 1
             lost == IF remove = i THEN i + 1 ELSE i + 2
             merged == [links EXCEPT ![keep].end =
                            IF links[lost].end > @ THEN links[lost].end ELSE @]
         IN  IF remove # -1 THEN SweepMerging(Splice(merged, remove), i)
             ELSE SweepMerging(links, i + 1)

\* the while loop, i 0-based
RECURSIVE Sweep(_, _)
Sweep(links, i) ==
    IF ~(i < Len(links) - 1) THEN links
    ELSE LET remove == RemoveIndex(links[i + 1], links[i + 2], i)
         IN  IF remove # -1 THEN Sweep(Splice(links, remove), i)
             ELSE Sweep(links, i + 1)

PruneOverlaps(links) == Sweep(SortLinks(links), 0)

\* the state of the sweep after links.sort(c): the list, len, i and the
\* number of times the loop body has run
SweepStart(links) ==
    [links |-> SortLinks(links), len |-> Len(links), i |-> 0, iters |-> 0]

\* while (i < len - 1)
SweepRunning(st) == st.i < st.len - 1

\* mutant of SweepBody: the index moves on after a removal as well
SweepBodyAdvancing(st) ==
    LET remove == RemoveIndex(st.links[st.i + 1], st.links[st.i + 2], st.i)
    IN  IF remove # -1
        THEN [links |-> Splice(st.links, remove), len |-> st.len - 1,
              i |-> st.i + 1, iters |-> st.iters + 1]
        ELSE [st EXCEPT !.i = st.i + 1, !.iters = st.iters + 1]

\* one run of the loop body
SweepBody(st) ==
    LET remove == RemoveIndex(st.links[st.i + 1], st.links[st.i + 2], st.i)
    IN  IF remove # -1
        THEN [links |-> Splice(st.links, remove), len |-> st.len - 1,
              i |-> st.i, iters |-> st.iters + 1]
        ELSE [st EXCEPT !.i = st.i + 1, !.iters = st.iters + 1]

(***************************************************************************)
(* log.ts and containsUnsupportedCharacters.  A check returns whether the  *)
(* text is rejected and the messages it passed to logError.                *)
(***************************************************************************)
\* mutant of ContainsUnsupportedCharacters: every offending code point of the
\* text is reported before returning
ContainsUnsupportedCharactersEach(text) ==
    LET c == IF Contains(text, "u202C") THEN <<MsgU202C>> ELSE <<>>
        d == IF Contains(text, "u202D") THEN <<MsgU202D>> ELSE <<>>
        e == IF Contains(text, "u202E") THEN <<MsgU202E>> ELSE <<>>
    IN  [unsupported |-> (c \o d \o e) # <<>>, logged |-> c \o d \o e]

ContainsUnsupportedCharacters(text) ==
    IF Contains(text, "u202C") THEN [unsupported |-> TRUE, logged |-> <<MsgU202C>>]
    ELSE IF Contains(text, "u202D") THEN [unsupported |-> TRUE, logged |-> <<MsgU202D>>]
    ELSE IF Contains(text, "u202E") THEN [unsupported |-> TRUE, logged |-> <<MsgU202E>>]
    ELSE [unsupported |-> FALSE, logged |-> <<>>]

\* logError: what reaches the handler of the messages passed to it
LogError(handler, messages) == IF handler THEN messages ELSE <<>>

(***************************************************************************)
(* addAutoLinks.  An optional argument is <<>> when omitted (undefined)    *)
(* and <<v>> when given.  li is the lastIndex of the two global patterns   *)
(* when the call begins, handler the logErrorF of that moment.             *)
(***************************************************************************)
NoneFound == [kind |-> "false", links |-> <<>>]

\* mutant of EffectiveMask: if (!mask) mask = ALL
EffectiveMaskFalsy(maskArg) ==
    IF maskArg = <<>> \/ maskArg[1] = 0 THEN ALL ELSE maskArg[1]

\* if (mask === undefined) mask = ALL
EffectiveMask(maskArg) == IF maskArg = <<>> THEN ALL ELSE maskArg[1]

\* the two if-blocks around gatherLinks
Enabled(mask, kind) == BitAnd(mask, kind) # 0

\* mutant of ResultOf: return links
ResultOfList(links) == [kind |-> "list", links |-> links]

\* if (links.length == 0) return false; return links
ResultOf(links) ==
    IF Len(links) = 0 THEN NoneFound ELSE [kind |-> "list", links |-> links]

\* a call that returns false before line 155
Rejected(li, handler, logged) ==
    [result |-> NoneFound, scanned |-> FALSE, gathered |-> <<>>, pruned |-> <<>>,
     webCount |-> 0, lastIndex |-> li, execs |-> [web |-> 0, email |-> 0],
     logged |-> logged, delivered |-> LogError(handler, logged)]

AddAutoLinks(text, maskArg, li, handler) ==
    LET mask == EffectiveMask(maskArg)
        chk == ContainsUnsupportedCharacters(text)
    IN  IF chk.unsupported THEN Rejected(li, handler, chk.logged)
        ELSE IF mask = 0 THEN Rejected(li, handler, <<>>)
        ELSE LET w == IF Enabled(mask, WEB_URLS)
                      THEN GatherLinks(<<>>, text, AUTOLINK_WEB_URL, li.web,
                                       WebSchemes, "sUrlMatchFilter", "undefined")
                      ELSE [links |-> <<>>, lastIndex |-> li.web, execs |-> 0]
                 e == IF Enabled(mask, EMAIL_ADDRESSES)
                      THEN GatherLinks(w.links, text, AUTOLINK_EMAIL_ADDRESS, li.email,
                                       EmailSchemes, "undefined", "undefined")
                      ELSE [links |-> w.links, lastIndex |-> li.email, execs |-> 0]
                 links == PruneOverlaps(e.links)
             IN  [result |-> ResultOf(links), scanned |-> TRUE,
                  gathered |-> e.links, pruned |-> links, webCount |-> Len(w.links),
                  lastIndex |-> [web |-> w.lastIndex, email |-> e.lastIndex],
                  execs |-> [web |-> w.execs, email |-> e.execs],
                  logged |-> <<>>, delivered |-> <<>>]

(***************************************************************************)
(* addLinks.  pattern names the RegExp object the caller passes: one of    *)
(* the two exported global patterns.                                       *)
(***************************************************************************)
PatternSource(pattern) ==
    IF pattern = "web" THEN AUTOLINK_WEB_URL ELSE AUTOLINK_EMAIL_ADDRESS

\* lines 221-230: the lower-cased default scheme, then the lower-cased schemes
SchemesCopy(defaultScheme, schemes) ==
    LET d == IF defaultScheme = <<>> THEN <<>> ELSE defaultScheme[1]
        ss == IF schemes = <<>> \/ Len(schemes[1]) < 1 THEN <<>> ELSE schemes[1]
    IN  <<ToLowerCase(d)>> \o [k \in 1..Len(ss) |-> ToLowerCase(ss[k])]

\* lines 221-247 of addLinks: the scan behind the guard
ScanLinks(spannable, pattern, defaultScheme, schemes, matchFilter, transformFilter, li) ==
    LET g == GatherLinks(<<>>, spannable, PatternSource(pattern), li[pattern],
                         SchemesCopy(defaultScheme, schemes),
                         matchFilter, transformFilter)
    IN  [result |-> [kind |-> "list", links |-> g.links], scanned |-> TRUE,
         gathered |-> g.links, pruned |-> g.links, webCount |-> 0,
         lastIndex |-> [li EXCEPT ![pattern] = g.lastIndex],
         execs |-> [[web |-> 0, email |-> 0] EXCEPT ![pattern] = g.execs],
         logged |-> <<>>, delivered |-> <<>>]

\* mutant of AddLinks: the bidi guard is missing
AddLinksUnguarded(spannable, pattern, defaultScheme, schemes, matchFilter, transformFilter, li, handler) ==
    ScanLinks(spannable, pattern, defaultScheme, schemes, matchFilter, transformFilter, li)

AddLinks(spannable, pattern, defaultScheme, schemes, matchFilter, transformFilter, li, handler) ==
    LET chk == ContainsUnsupportedCharacters(spannable)
    IN  IF chk.unsupported THEN Rejected(li, handler, chk.logged)
        ELSE ScanLinks(spannable, pattern, defaultScheme, schemes, matchFilter,
                       transformFilter, li)

(***************************************************************************)
(* Inputs.                                                                 *)
(***************************************************************************)
Chars == {"a", "@", "u202C", "u202D", "u202E"}

Texts == SeqsUpTo(Chars, MaxTextLen)

\* the texts of a session of several calls
SessionTexts ==
    { <<>>, <<"a">>, <<"a", "@", "a">>, <<"a", "a", "@", "a">>,
      <<"a", "u202D">>, <<"u202E", "a", "u202C">>, <<"u202E", "u202D">> }

Masks == {<<>>} \cup {<<m>> : m \in 0..ALL}

\* the sources a pattern may have: one literal, or a longer literal before a
\* shorter one
Words == { <<"a">>, <<"a", "@">>, <<"@", "a">>, <<"a", "a">> }

Patterns ==
    {<<w>> : w \in Words}
        \cup {<<w, v>> : w \in {x \in Words : Len(x) > 1}, v \in {x \in Words : Len(x) = 1}}

SessionPatterns == {<<w>> : w \in Words}

\* the scheme arguments of addLinks: defaultScheme, schemes, transformFilter
SchemeArgs ==
    { [defaultScheme |-> << <<"A">> >>, schemes |-> <<>>, transformFilter |-> "undefined"],
      [defaultScheme |-> << <<"b", ":">> >>, schemes |-> << << <<"A", "@">> >> >>,
       transformFilter |-> "stripAt"] }

Idle == [logged |-> <<>>, delivered |-> <<>>]

(***************************************************************************)
(* The operations as steps.                                                *)
(***************************************************************************)
DoAddAutoLinks(text, maskArg) ==
    LET r == AddAutoLinks(text, maskArg, lastIndex, logErrorF)
    IN  /\ ret' = r
        /\ lastIndex' = r.lastIndex
        /\ UNCHANGED <<AUTOLINK_WEB_URL, AUTOLINK_EMAIL_ADDRESS, logErrorF>>

DoAddLinks(text, pattern, a, matchFilter) ==
    LET r == AddLinks(text, pattern, a.defaultScheme, a.schemes, matchFilter,
                      a.transformFilter, lastIndex, logErrorF)
    IN  /\ ret' = r
        /\ lastIndex' = r.lastIndex
        /\ UNCHANGED <<AUTOLINK_WEB_URL, AUTOLINK_EMAIL_ADDRESS, logErrorF>>

(***************************************************************************)
(* Spec: a session.  The module is loaded (no handler, both patterns at    *)
(* lastIndex 0) and the caller then calls the exported functions in any    *)
(* order with any arguments.                                               *)
(***************************************************************************)
\* history of a session, kept for the properties only: the operation before
\* the one called last, and whether it returned a list of annotations
Prev ==
    [op |-> call.op,
     found |-> call.op \in {"addAutoLinks", "addLinks"} /\ ret.result.kind = "list"
                  /\ ret.result.links # <<>>]

Init ==
    /\ pc = "idle"
    /\ AUTOLINK_WEB_URL \in SessionPatterns
    /\ AUTOLINK_EMAIL_ADDRESS \in SessionPatterns
    /\ lastIndex = [web |-> 0, email |-> 0]
    /\ logErrorF = FALSE
    /\ call = [op |-> "load", prev |-> [op |-> "none", found |-> FALSE]]
    /\ ret = Idle

SetLogError ==
    /\ pc = "idle"
    /\ logErrorF' = TRUE
    /\ call' = [op |-> "setLogError", prev |-> Prev]
    /\ ret' = Idle
    /\ UNCHANGED <<pc, AUTOLINK_WEB_URL, AUTOLINK_EMAIL_ADDRESS, lastIndex>>

CallAddAutoLinks ==
    /\ pc = "idle"
    /\ \E text \in SessionTexts, maskArg \in Masks :
          /\ DoAddAutoLinks(text, maskArg)
          /\ call' = [op |-> "addAutoLinks", text |-> text, mask |-> maskArg, prev |-> Prev]
    /\ UNCHANGED pc

CallAddLinks ==
    /\ pc = "idle"
    /\ \E text \in SessionTexts, pattern \in {"web", "email"}, a \in SchemeArgs,
          matchFilter \in {"undefined", "sUrlMatchFilter"} :
          /\ DoAddLinks(text, pattern, a, matchFilter)
          /\ call' = [op |-> "addLinks", text |-> text, pattern |-> pattern,
                       defaultScheme |-> a.defaultScheme, schemes |-> a.schemes,
                       matchFilter |-> matchFilter,
                       transformFilter |-> a.transformFilter, prev |-> Prev]
    /\ UNCHANGED pc

Next == SetLogError \/ CallAddAutoLinks \/ CallAddLinks

Spec == Init /\ [][Next]_vars

(***************************************************************************)
(* SpecAuto: one addAutoLinks call on every text up to MaxTextLen, in any  *)
(* state a session can be in when the call begins.                         *)
(***************************************************************************)
InitAuto ==
    /\ pc = "ready"
    /\ AUTOLINK_WEB_URL \in Patterns
    /\ AUTOLINK_EMAIL_ADDRESS \in Patterns
    /\ lastIndex = [web |-> 0, email |-> 0]
    /\ logErrorF \in BOOLEAN
    /\ \E text \in Texts, maskArg \in Masks :
          call = [op |-> "addAutoLinks", text |-> text, mask |-> maskArg]
    /\ ret = Idle

RunAddAutoLinks ==
    /\ pc = "ready"
    /\ call.op = "addAutoLinks"
    /\ DoAddAutoLinks(call.text, call.mask)
    /\ pc' = "done"
    /\ UNCHANGED call

NextAuto == RunAddAutoLinks

SpecAuto == InitAuto /\ [][NextAuto]_vars

(***************************************************************************)
(* SpecScheme: one addAutoLinks call on a text put together from up to     *)
(* MaxTokens tokens, schemes in several casings among them, with patterns  *)
(* that match a scheme and a letter, or the letter alone.                  *)
(***************************************************************************)
SchemeTokens ==
    { <<"H","t","t","p",":","/","/">>, <<"h","t","t","p","s",":","/","/">>,
      <<"R","T","S","P",":","/","/">>, <<"M","a","i","l","t","o",":">> }

RECURSIVE Concat(_)
Concat(ss) == IF ss = <<>> THEN <<>> ELSE Head(ss) \o Concat(Tail(ss))

SchemeTexts ==
    {Concat(ts) : ts \in SeqsUpTo(SchemeTokens \cup {<<"a">>, <<"@">>}, MaxTokens)}

SchemePatterns == {<<tok \o <<"a">>, <<"a">> >> : tok \in SchemeTokens} \cup {<< <<"a">> >>}

InitScheme ==
    /\ pc = "ready"
    /\ AUTOLINK_WEB_URL \in SchemePatterns
    /\ AUTOLINK_EMAIL_ADDRESS \in SchemePatterns
    /\ lastIndex = [web |-> 0, email |-> 0]
    /\ logErrorF = FALSE
    /\ \E text \in SchemeTexts, maskArg \in Masks :
          call = [op |-> "addAutoLinks", text |-> text, mask |-> maskArg]
    /\ ret = Idle

SpecScheme == InitScheme /\ [][NextAuto]_vars

\* the operation named has returned and ret holds what it did
Returned(op) == pc \in {"idle", "done"} /\ call.op = op

(***************************************************************************)
(* SpecPrune: pruneOverlaps on every list of up to MaxLinks annotations    *)
(* with 0 <= start < end <= MaxPos, then once more on the list it left.    *)
(* The k-th annotation of the input carries the k-th url, which tells      *)
(* annotations of equal span apart.                                        *)
(***************************************************************************)
UrlNames == <<"1", "2", "3", "4", "5", "6", "7", "8">>

Spans == {sp \in (0..MaxPos) \X (0..MaxPos) : sp[1] < sp[2]}

LinkLists ==
    {[k \in 1..Len(sps) |-> [url |-> <<UrlNames[k]>>, start |-> sps[k][1], end |-> sps[k][2]]] :
        sps \in SeqsUpTo(Spans, MaxLinks)}

InitPrune ==
    /\ pc = "ready"
    /\ AUTOLINK_WEB_URL = << <<"a">> >>
    /\ AUTOLINK_EMAIL_ADDRESS = << <<"a", "@">> >>
    /\ lastIndex = [web |-> 0, email |-> 0]
    /\ logErrorF = FALSE
    /\ \E links \in LinkLists : call = [op |-> "pruneOverlaps", links |-> links]
    /\ ret = Idle

RunPruneOverlaps ==
    /\ pc = "ready"
    /\ call.op = "pruneOverlaps"
    /\ ret' = [first |-> PruneOverlaps(call.links)]
    /\ pc' = "pruned"
    /\ UNCHANGED <<AUTOLINK_WEB_URL, AUTOLINK_EMAIL_ADDRESS, lastIndex, logErrorF, call>>

RunPruneOverlapsAgain ==
    /\ pc = "pruned"
    /\ ret' = [first |-> ret.first, second |-> PruneOverlaps(ret.first)]
    /\ pc' = "done"
    /\ UNCHANGED <<AUTOLINK_WEB_URL, AUTOLINK_EMAIL_ADDRESS, lastIndex, logErrorF, call>>

NextPrune == RunPruneOverlaps \/ RunPruneOverlapsAgain

SpecPrune == InitPrune /\ [][NextPrune]_vars

\* pruneOverlaps has run on call.links and ret.first is the list it left
Pruned == pc \in {"pruned", "done"} /\ call.op = "pruneOverlaps"

(***************************************************************************)
(* SpecSweep: pruneOverlaps one loop iteration at a time.  ret holds the   *)
(* list, len, i and the count of iterations.  The loop is sequential code  *)
(* that keeps running, hence the weak fairness.                            *)
(***************************************************************************)
SweepSpans == {sp \in (0..MaxSweepPos) \X (0..MaxSweepPos) : sp[1] < sp[2]}

SweepLists ==
    {[k \in 1..Len(sps) |-> [url |-> <<UrlNames[k]>>, start |-> sps[k][1], end |-> sps[k][2]]] :
        sps \in SeqsUpTo(SweepSpans, MaxLinks)}

InitSweep ==
    /\ pc = "ready"
    /\ AUTOLINK_WEB_URL = << <<"a">> >>
    /\ AUTOLINK_EMAIL_ADDRESS = << <<"a", "@">> >>
    /\ lastIndex = [web |-> 0, email |-> 0]
    /\ logErrorF = FALSE
    /\ \E links \in SweepLists : call = [op |-> "sweep", links |-> links]
    /\ ret = Idle

SweepSort ==
    /\ pc = "ready"
    /\ call.op = "sweep"
    /\ ret' = SweepStart(call.links)
    /\ pc' = "sweep"
    /\ UNCHANGED <<AUTOLINK_WEB_URL, AUTOLINK_EMAIL_ADDRESS, lastIndex, logErrorF, call>>

SweepIteration ==
    /\ pc = "sweep"
    /\ SweepRunning(ret)
    /\ ret' = SweepBody(ret)
    /\ UNCHANGED <<pc, AUTOLINK_WEB_URL, AUTOLINK_EMAIL_ADDRESS, lastIndex, logErrorF, call>>

SweepExit ==
    /\ pc = "sweep"
    /\ ~SweepRunning(ret)
    /\ pc' = "swept"
    /\ UNCHANGED <<ret, AUTOLINK_WEB_URL, AUTOLINK_EMAIL_ADDRESS, lastIndex, logErrorF, call>>

NextSweep == SweepSort \/ SweepIteration \/ SweepExit

SpecSweep == InitSweep /\ [][NextSweep]_vars /\ WF_vars(NextSweep)

(***************************************************************************)
(* SpecOrder: both of the above, a single addAutoLinks call or a           *)
(* pruneOverlaps run.                                                      *)
(***************************************************************************)
InitOrder == InitAuto \/ InitPrune

NextOrder == RunAddAutoLinks \/ RunPruneOverlaps \/ RunPruneOverlapsAgain

SpecOrder == InitOrder /\ [][NextOrder]_vars

(***************************************************************************)
(* SpecMakeUrl: makeUrl on every matched text up to MaxUrlLen and every    *)
(* list of up to MaxPrefixes prefixes.                                     *)
(***************************************************************************)
UrlChars == {"a", "A", "b", ":", "@"}

PrefixWords == { <<"a">>, <<"A">>, <<"a", ":">>, <<"b">>, <<"a", "b">> }

InitMakeUrl ==
    /\ pc = "ready"
    /\ AUTOLINK_WEB_URL = << <<"a">> >>
    /\ AUTOLINK_EMAIL_ADDRESS = << <<"a", "@">> >>
    /\ lastIndex = [web |-> 0, email |-> 0]
    /\ logErrorF = FALSE
    /\ \E url \in SeqsUpTo(UrlChars, MaxUrlLen), prefixes \in SeqsUpTo(PrefixWords, MaxPrefixes),
          filter \in {"undefined", "stripAt"} :
            call = [op |-> "makeUrl", url |-> url, prefixes |-> prefixes, filter |-> filter]
    /\ ret = Idle

RunMakeUrl ==
    /\ pc = "ready"
    /\ call.op = "makeUrl"
    /\ ret' = [url |-> MakeUrl(call.url, call.prefixes, call.filter)]
    /\ pc' = "done"
    /\ UNCHANGED <<AUTOLINK_WEB_URL, AUTOLINK_EMAIL_ADDRESS, lastIndex, logErrorF, call>>

NextMakeUrl == RunMakeUrl

SpecMakeUrl == InitMakeUrl /\ [][NextMakeUrl]_vars

(***************************************************************************)
(* Properties.                                                             *)
(***************************************************************************)
Disjoint(a, b) == a.end <= b.start \/ b.end <= a.start

Contained(a, b) == b.start <= a.start /\ a.end <= b.end    \* a inside b

SpanLen(a) == a.end - a.start

\* C1: when addAutoLinks returns a list, no two distinct annotations in it
\* intersect: a.end <= b.start or b.end <= a.start.
C1_NoOverlapReturned ==
    Returned("addAutoLinks") /\ ret.result.kind = "list" =>
        \A i, j \in 1..Len(ret.result.links) :
            i # j => Disjoint(ret.result.links[i], ret.result.links[j])

\* C2: pruneOverlaps is idempotent: a second run on the list left by a first
\* run removes nothing and leaves the list unchanged, in the same order.
C2_PruneIdempotent ==
    pc = "done" /\ call.op = "pruneOverlaps" => ret.second = ret.first

\* C3: after pruneOverlaps, any two surviving annotations whose spans
\* intersect have equal length and neither contains the other; survivors of
\* different length are disjoint.
C3_OnlyEqualLengthOverlapsSurvive ==
    Pruned =>
        \A i, j \in 1..Len(ret.first) :
            i # j /\ ~Disjoint(ret.first[i], ret.first[j]) =>
                /\ SpanLen(ret.first[i]) = SpanLen(ret.first[j])
                /\ ~Contained(ret.first[i], ret.first[j])
                /\ ~Contained(ret.first[j], ret.first[i])

SortedByStart(links) ==
    \A i, j \in 1..Len(links) : i < j => links[i].start <= links[j].start

SortedByStartThenEndDesc(links) ==
    \A i, j \in 1..Len(links) : i < j =>
        \/ links[i].start < links[j].start
        \/ links[i].start = links[j].start /\ links[i].end >= links[j].end

\* C4: the list returned by addAutoLinks is sorted by ascending start, and
\* the list left by pruneOverlaps on any input is sorted by start ascending
\* and, for equal start, by end descending.
C4_Sorted ==
    /\ Returned("addAutoLinks") /\ ret.result.kind = "list" =>
          SortedByStart(ret.result.links)
    /\ Pruned => SortedByStartThenEndDesc(ret.first)

\* C4 witness: addAutoLinks returned two annotations or more although the
\* email annotations gathered last begin before web annotations gathered first.
C4_Witness ==
    /\ Returned("addAutoLinks")
    /\ ret.result.kind = "list"
    /\ Len(ret.result.links) >= 2
    /\ ~SortedByStart(ret.gathered)

NoExecs == [web |-> 0, email |-> 0]

BidiOrder == <<"u202C", "u202D", "u202E">>

BidiMessages == <<MsgU202C, MsgU202D, MsgU202E>>

\* the bidirectional control code points a text contains
Offending(text) == {k \in 1..Len(BidiOrder) : Contains(text, BidiOrder[k])}

\* some match of the pattern lies in the text
Matches(pattern, text) == Exec(pattern, text, 0).found

\* C5 as claimed: a text with a bidi control code point makes addAutoLinks
\* return false without running a pattern, and logError gets exactly one
\* report for each distinct offending code point of the text.
C5_OneReportPerCodePoint ==
    Returned("addAutoLinks") /\ Offending(call.text) # {} =>
        /\ ret.result = NoneFound
        /\ ret.execs = NoExecs
        /\ Len(ret.logged) = Cardinality(Offending(call.text))
        /\ \A k \in Offending(call.text) : Contains(ret.logged, BidiMessages[k])

\* C5 as amended: such a text makes addAutoLinks return false without
\* running a pattern, and logError gets exactly one report, the one for the
\* first of U+202C, U+202D, U+202E (in this order) that the text contains;
\* the handler, when one is installed, receives that report.
C5_OneReportForFirst ==
    Returned("addAutoLinks") /\ Offending(call.text) # {} =>
        /\ ret.result = NoneFound
        /\ ret.execs = NoExecs
        /\ lastIndex = [web |-> 0, email |-> 0]
        /\ ret.logged = <<BidiMessages[Min(Offending(call.text))]>>
        /\ ret.delivered = (IF logErrorF THEN ret.logged ELSE <<>>)

\* C5 witness: a rejected text with two offending code points or more, in
\* which the web pattern has a match, with a handler installed.
C5_Witness ==
    /\ Returned("addAutoLinks")
    /\ Cardinality(Offending(call.text)) >= 2
    /\ Matches(AUTOLINK_WEB_URL, call.text)
    /\ EffectiveMask(call.mask) = ALL
    /\ logErrorF
    /\ ret.result = NoneFound

\* C6 as claimed: addLinks applies no bidi guard; on a text with a bidi
\* control code point it still scans with the caller's pattern, returns the
\* gathered annotations and sends nothing to logError.
C6_AddLinksUnguarded ==
    Returned("addLinks") /\ Offending(call.text) # {} =>
        /\ ret.execs[call.pattern] >= 1
        /\ ret.result = [kind |-> "list", links |-> ret.gathered]
        /\ ret.logged = <<>>

\* C6 as amended: addLinks applies the same bidi guard as addAutoLinks; on a
\* text with a bidi control code point it returns false without running the
\* caller's pattern, and logError gets one report, for the first of U+202C,
\* U+202D, U+202E that the text contains.
C6_AddLinksGuarded ==
    Returned("addLinks") /\ Offending(call.text) # {} =>
        /\ ret.result = NoneFound
        /\ ret.execs = NoExecs
        /\ ret.gathered = <<>>
        /\ ret.logged = <<BidiMessages[Min(Offending(call.text))]>>
        /\ ret.delivered = (IF logErrorF THEN ret.logged ELSE <<>>)

\* C6 witness: addLinks rejected a text in which the caller's pattern has a
\* match, with a handler installed.
C6_Witness ==
    /\ Returned("addLinks")
    /\ Offending(call.text) # {}
    /\ Matches(PatternSource(call.pattern), call.text)
    /\ logErrorF
    /\ ret.result = NoneFound

\* C7: with mask 0 addAutoLinks returns false without scanning: neither
\* pattern is run on the text and no annotation is created, for every text.
C7_ZeroMaskNoScan ==
    Returned("addAutoLinks") /\ call.mask = <<0>> =>
        /\ ret.result = NoneFound
        /\ ret.execs = NoExecs
        /\ ret.gathered = <<>>
        /\ lastIndex = [web |-> 0, email |-> 0]

\* C7 witness: a call with mask 0 on a text without bidi control code points
\* in which both patterns have a match.
C7_Witness ==
    /\ Returned("addAutoLinks")
    /\ call.mask = <<0>>
    /\ Offending(call.text) = {}
    /\ Matches(AUTOLINK_WEB_URL, call.text)
    /\ Matches(AUTOLINK_EMAIL_ADDRESS, call.text)
    /\ ret.result = NoneFound

\* C8: addAutoLinks never returns an empty list: past its guards it returns
\* false exactly when the pruned list is empty (so for the empty text and
\* for a text without accepted match) and the non-empty pruned list otherwise.
C8_NeverEmptyList ==
    Returned("addAutoLinks") =>
        /\ ret.result.kind = "list" =>
              ret.result.links # <<>> /\ ret.result.links = ret.pruned /\ ret.scanned
        /\ ret.scanned => (ret.result = NoneFound <=> ret.pruned = <<>>)
        /\ call.text = <<>> \/ ret.gathered = <<>> => ret.result = NoneFound

\* C8 witness: a scan in which the web pattern matched, every match was
\* rejected, the pruned list is empty and false is returned.
C8_Witness ==
    /\ Returned("addAutoLinks")
    /\ ret.scanned
    /\ ret.execs.web >= 2
    /\ ret.pruned = <<>>
    /\ ret.result = NoneFound

\* C9: addAutoLinks is history-independent: whatever calls came before, both
\* patterns are at lastIndex 0 between calls, and the result of a call is the
\* result the same text and mask give on the freshly loaded module.
C9_HistoryIndependent ==
    /\ lastIndex = [web |-> 0, email |-> 0]
    /\ Returned("addAutoLinks") =>
          ret.result = AddAutoLinks(call.text, call.mask,
                                    [web |-> 0, email |-> 0], logErrorF).result

\* C9 witness: a call that returned annotations right after a call that
\* returned none (rejected by the bidi guard among others).
C9_Witness ==
    /\ Returned("addAutoLinks")
    /\ ret.result.kind = "list"
    /\ ret.result.links # <<>>
    /\ call.prev.op = "addAutoLinks"
    /\ ~call.prev.found

\* the prefixes of the list that equal the leading characters of the text
\* case-insensitively
Recognised(t, prefixes) ==
    {k \in 1..Len(prefixes) :
        /\ Len(prefixes[k]) <= Len(t)
        /\ ToLowerCase(SubSeq(t, 1, Len(prefixes[k]))) = ToLowerCase(prefixes[k])}

\* C10: when some prefix equals the leading characters of the (transformed)
\* text case-insensitively, the result of makeUrl is the first such prefix of
\* the list, in the list's casing, followed by the rest of the text.
C10_FirstPrefixWins ==
    pc = "done" /\ call.op = "makeUrl" =>
        LET t == TransformFilter(call.filter, call.url)
            rec == Recognised(t, call.prefixes)
        IN  rec # {} =>
              ret.url = call.prefixes[Min(rec)]
                          \o SubSeq(t, Len(call.prefixes[Min(rec)]) + 1, Len(t))

\* C10 witness: two prefixes are recognised, the first in another casing than
\* the text's, which the transform shortened.
C10_Witness ==
    /\ pc = "done"
    /\ call.op = "makeUrl"
    /\ LET t == TransformFilter(call.filter, call.url)
           rec == Recognised(t, call.prefixes)
       IN  /\ Cardinality(rec) >= 2
           /\ t # call.url
           /\ SubSeq(t, 1, Len(call.prefixes[Min(rec)])) # call.prefixes[Min(rec)]
           /\ ret.url # t

\* C11: when no prefix of a non-empty list equals the leading characters of
\* the (transformed) text case-insensitively, the result of makeUrl is the
\* first prefix of the list followed by the whole text; with an empty list
\* the result is the text.
C11_DefaultPrefixPrepended ==
    pc = "done" /\ call.op = "makeUrl" =>
        LET t == TransformFilter(call.filter, call.url)
        IN  Recognised(t, call.prefixes) = {} =>
              ret.url = (IF call.prefixes = <<>> THEN t ELSE call.prefixes[1] \o t)

\* C11 witness: a list of two different prefixes, neither recognised in a
\* non-empty text that begins with the first letter of one of them.
C11_Witness ==
    /\ pc = "done"
    /\ call.op = "makeUrl"
    /\ Len(call.prefixes) = 2
    /\ call.prefixes[1] # call.prefixes[2]
    /\ LET t == TransformFilter(call.filter, call.url)
       IN  /\ t # <<>>
           /\ Recognised(t, call.prefixes) = {}
           /\ t[1] = call.prefixes[2][1]
           /\ ret.url = call.prefixes[1] \o t

BeginsWith(u, p) == Len(p) <= Len(u) /\ SubSeq(u, 1, Len(p)) = p

BeginsWithIgnoringCase(u, p) ==
    Len(p) <= Len(u) /\ ToLowerCase(SubSeq(u, 1, Len(p))) = ToLowerCase(p)

\* the scheme prefixes of the two detector kinds, as the claims spell them
ClaimedWebSchemes ==
    { <<"h","t","t","p",":","/","/">>, <<"h","t","t","p","s",":","/","/">>,
      <<"r","t","s","p",":","/","/">> }

ClaimedEmailSchemes == { <<"m","a","i","l","t","o",":">> }

\* the schemes of the detector that gathered the k-th annotation of a call
ClaimedSchemes(k) == IF k <= ret.webCount THEN ClaimedWebSchemes ELSE ClaimedEmailSchemes

\* text[start, end)
Substring(text, l) == SubSeq(text, l.start + 1, l.end)

\* C12: every url addAutoLinks returns begins with a scheme prefix of its
\* detector kind in lower case, http://, https:// or rtsp:// for the web
\* detector and mailto: for the email detector, and that prefix is there
\* once: a matched text that carries such a scheme in whatever casing gets
\* none added.
C12_UrlBeginsWithKindScheme ==
    Returned("addAutoLinks") /\ ret.result.kind = "list" =>
        \A i \in 1..Len(ret.result.links) :
            \E k \in 1..Len(ret.gathered) :
                /\ ret.gathered[k] = ret.result.links[i]
                /\ \E p \in ClaimedSchemes(k) : BeginsWith(ret.result.links[i].url, p)
                /\ (\E q \in ClaimedSchemes(k) :
                        BeginsWithIgnoringCase(Substring(call.text, ret.result.links[i]), q))
                     => Len(ret.result.links[i].url)
                            = Len(Substring(call.text, ret.result.links[i]))

\* C12 witness: a returned web annotation whose matched text carries its
\* scheme in another casing than the url does.
C12_Witness ==
    /\ Returned("addAutoLinks")
    /\ ret.result.kind = "list"
    /\ \E i \in 1..Len(ret.result.links) :
          /\ \E k \in 1..ret.webCount : ret.gathered[k] = ret.result.links[i]
          /\ Len(ret.result.links[i].url) = Len(Substring(call.text, ret.result.links[i]))
          /\ ret.result.links[i].url # Substring(call.text, ret.result.links[i])

\* the matches a global pattern yields on a text when exec is called over
\* and over from lastIndex li, left to right, as spans with their text
RECURSIVE MatchesFrom(_, _, _)
MatchesFrom(pattern, text, li) ==
    LET m == Exec(pattern, text, li)
    IN  IF ~m.found THEN <<>>
        ELSE <<[start |-> m.index, end |-> m.index + Len(m.text), text |-> m.text]>>
                 \o MatchesFrom(pattern, text, m.lastIndex)

SpanOf(l) == [start |-> l.start, end |-> l.end]

SpansOf(ls) == [k \in 1..Len(ls) |-> SpanOf(ls[k])]

PrecededByAt(text, m) == m.start > 0 /\ text[m.start] = "@"

NotPrecededByAt(text, ms) == SelectSeq(ms, LAMBDA m : ~PrecededByAt(text, m))

WebEnabled == call.mask = <<>> \/ call.mask \in {<<1>>, <<3>>}

EmailEnabled == call.mask = <<>> \/ call.mask \in {<<2>>, <<3>>}

WebMatches == IF WebEnabled THEN MatchesFrom(AUTOLINK_WEB_URL, call.text, 0) ELSE <<>>

EmailMatches == IF EmailEnabled THEN MatchesFrom(AUTOLINK_EMAIL_ADDRESS, call.text, 0) ELSE <<>>

\* C13: the URL match filter answers false exactly for start > 0 with '@' at
\* start - 1, whatever end is; so the web annotations gathered are the web
\* matches not preceded by '@', and the email annotations gathered before
\* pruning are all the email matches.
C13_UrlMatchFilter ==
    Returned("addAutoLinks") =>
        /\ \A start \in 0..(Len(call.text) - 1) : \A end \in (start + 1)..Len(call.text) :
              sUrlMatchFilter(call.text, start, end)
                  = ~(start > 0 /\ call.text[start] = "@")
        /\ ret.scanned =>
              /\ SpansOf(SubSeq(ret.gathered, 1, ret.webCount))
                    = SpansOf(NotPrecededByAt(call.text, WebMatches))
              /\ SpansOf(SubSeq(ret.gathered, ret.webCount + 1, Len(ret.gathered)))
                    = SpansOf(EmailMatches)

\* C13 witness: one web match is refused for the '@' before it, another is
\* taken, and an email match with '@' before it is gathered.
C13_Witness ==
    /\ Returned("addAutoLinks")
    /\ ret.scanned
    /\ \E k \in 1..Len(WebMatches) : PrecededByAt(call.text, WebMatches[k])
    /\ ret.webCount > 0
    /\ ret.webCount < Len(WebMatches)
    /\ \E k \in (ret.webCount + 1)..Len(ret.gathered) : PrecededByAt(call.text, ret.gathered[k])

\* pruneOverlaps has run on a list of two annotations
PrunedTwo == Pruned /\ Len(call.links) = 2

\* a.start < b.start < a.end < b.end
PartialOverlap(a, b) == a.start < b.start /\ b.start < a.end /\ a.end < b.end

\* C14: of two annotations given to pruneOverlaps in either order, one span
\* within the other and the spans not the same, the containing one is all
\* that is left.
C14_ContainingSurvives ==
    PrunedTwo =>
        \A x, y \in 1..2 :
            (/\ x # y
             /\ Contained(call.links[y], call.links[x])
             /\ SpanOf(call.links[x]) # SpanOf(call.links[y]))
                => ret.first = <<call.links[x]>>

\* C14 witness: the contained annotation came first in the input, shares its
\* end with the containing one, and is gone.
C14_Witness ==
    /\ PrunedTwo
    /\ Contained(call.links[1], call.links[2])
    /\ call.links[1].start > call.links[2].start
    /\ call.links[1].end = call.links[2].end
    /\ ret.first = <<call.links[2]>>

\* C15: of two annotations given to pruneOverlaps in either order with
\* a.start < b.start < a.end < b.end and spans of different length, the
\* strictly longer one is all that is left.
C15_LongerSurvives ==
    PrunedTwo =>
        \A x, y \in 1..2 :
            (/\ PartialOverlap(call.links[x], call.links[y])
             /\ SpanLen(call.links[x]) # SpanLen(call.links[y]))
                => ret.first = (IF SpanLen(call.links[x]) > SpanLen(call.links[y])
                                THEN <<call.links[x]>> ELSE <<call.links[y]>>)

\* C15 witness: the later annotation is the longer one, was given first, and
\* is what is left.
C15_Witness ==
    /\ PrunedTwo
    /\ PartialOverlap(call.links[2], call.links[1])
    /\ SpanLen(call.links[1]) > SpanLen(call.links[2])
    /\ ret.first = <<call.links[1]>>

\* C16: of two annotations given to pruneOverlaps with
\* a.start < b.start < a.end < b.end and spans of equal length, both are
\* left, the one that starts first before the other.
C16_EqualLengthBothSurvive ==
    PrunedTwo =>
        \A x, y \in 1..2 :
            (/\ PartialOverlap(call.links[x], call.links[y])
             /\ SpanLen(call.links[x]) = SpanLen(call.links[y]))
                => ret.first = <<call.links[x], call.links[y]>>

\* C16 witness: the annotation that starts later was given first, and the
\* two are left in the other order.
C16_Witness ==
    /\ PrunedTwo
    /\ PartialOverlap(call.links[2], call.links[1])
    /\ SpanLen(call.links[1]) = SpanLen(call.links[2])
    /\ ret.first = <<call.links[2], call.links[1]>>

\* one annotation for each match of ms, in the order of ms, with the span of
\* the match and the url makeUrl gives its text
AnnotationsOf(ms, schemes) ==
    [k \in 1..Len(ms) |-> [url |-> MakeUrl(ms[k].text, schemes, "undefined"),
                           start |-> ms[k].start, end |-> ms[k].end]]

\* C17: a gatherLinks pass appends one annotation for each match its filter
\* accepts, every match when it has no filter, in match order and with the
\* span of the match, and leaves the annotations of the pass before it as
\* they were; every span gathered satisfies 0 <= start < end <= length(text).
C17_OneAnnotationPerAcceptedMatch ==
    Returned("addAutoLinks") /\ ret.scanned =>
        /\ ret.webCount = Len(NotPrecededByAt(call.text, WebMatches))
        /\ ret.gathered = AnnotationsOf(NotPrecededByAt(call.text, WebMatches), WebSchemes)
                              \o AnnotationsOf(EmailMatches, EmailSchemes)
        /\ \A k \in 1..Len(ret.gathered) :
              /\ 0 <= ret.gathered[k].start
              /\ ret.gathered[k].start < ret.gathered[k].end
              /\ ret.gathered[k].end <= Len(call.text)

\* C17 witness: the web pass left an annotation and skipped a match, and the
\* email pass put two annotations behind it, one on the same span.
C17_Witness ==
    /\ Returned("addAutoLinks")
    /\ ret.scanned
    /\ ret.webCount = 1
    /\ Len(WebMatches) = 2
    /\ Len(ret.gathered) = 3
    /\ SpanOf(ret.gathered[2]) = SpanOf(ret.gathered[1])
    /\ ret.gathered[3].start >= ret.gathered[2].end

\* the scheme the k-th annotation gathered gets when its text carries none
ClaimedDefaultScheme(k) ==
    IF k <= ret.webCount THEN <<"h","t","t","p",":","/","/">>
    ELSE <<"m","a","i","l","t","o",":">>

\* the schemes of the kind of the k-th annotation that the text sub begins
\* with, in whatever casing
Carried(k, sub) == {q \in ClaimedSchemes(k) : BeginsWithIgnoringCase(sub, q)}

\* url is sub with its leading scheme q in lower case
Normalised(url, sub, q) == url = q \o SubSeq(sub, Len(q) + 1, Len(sub))

\* C18: the url of every annotation addAutoLinks returns is made of
\* text[start, end) alone: that substring with its leading scheme in lower
\* case, of length end - start, when the substring carries a scheme of its
\* kind, and else the default scheme of the kind followed by the substring,
\* of length end - start plus the length of the default scheme.
C18_UrlOfMatchedSubstring ==
    Returned("addAutoLinks") /\ ret.result.kind = "list" =>
        \A i \in 1..Len(ret.result.links) :
            \E k \in 1..Len(ret.gathered) :
                LET l == ret.result.links[i]
                    sub == Substring(call.text, l)
                IN  /\ ret.gathered[k] = l
                    /\ IF Carried(k, sub) # {}
                       THEN /\ \E q \in Carried(k, sub) : Normalised(l.url, sub, q)
                            /\ Len(l.url) = l.end - l.start
                       ELSE /\ l.url = ClaimedDefaultScheme(k) \o sub
                            /\ Len(l.url) = l.end - l.start + Len(ClaimedDefaultScheme(k))

\* C18 witness: one call returns an annotation whose text carried no scheme
\* and, after it, one whose text carried a scheme in another casing.
C18_Witness ==
    /\ Returned("addAutoLinks")
    /\ ret.result.kind = "list"
    /\ Len(ret.result.links) >= 2
    /\ LET a == ret.result.links[1]
           b == ret.result.links[2]
       IN  /\ Len(a.url) > a.end - a.start
           /\ b.start > 0
           /\ b.url # Substring(call.text, b)
           /\ Len(b.url) = b.end - b.start

\* the places of the list ls where the annotation l stands
PlacesOf(l, ls) == {k \in 1..Len(ls) : ls[k] = l}

\* C19: pruneOverlaps only reorders and deletes: every annotation of the
\* list it leaves stands in the input with the same url, start and end, none
\* stands in the result more often than in the input, and the result is in
\* the order start ascending, end descending.
C19_OnlyReordersAndDeletes ==
    Pruned =>
        /\ \A k \in 1..Len(ret.first) :
              /\ PlacesOf(ret.first[k], call.links) # {}
              /\ Cardinality(PlacesOf(ret.first[k], ret.first))
                    <= Cardinality(PlacesOf(ret.first[k], call.links))
        /\ Len(ret.first) <= Len(call.links)
        /\ SortedByStartThenEndDesc(ret.first)

\* C19 witness: of three annotations one is deleted and the two left stand
\* in the other order than in the input.
C19_Witness ==
    /\ Pruned
    /\ Len(call.links) = 3
    /\ Len(ret.first) = 2
    /\ \E j, k \in 1..3 : j < k /\ ret.first = <<call.links[k], call.links[j]>>

\* the list ls without what stands at place k
WithoutPlace(ls, k) == [j \in 1..(Len(ls) - 1) |-> IF j < k THEN ls[j] ELSE ls[j + 1]]

\* the sweep is under way or over
Sweeping == pc \in {"sweep", "swept"}

\* the sweep ends
SweepEnds == <>(pc = "swept")

\* an iteration deletes one element and leaves the index, or deletes nothing
\* and moves the index on by one
SweepIterates ==
    [][(pc = "sweep" /\ pc' = "sweep") =>
          \/ /\ \E k \in 1..Len(ret.links) : ret'.links = WithoutPlace(ret.links, k)
             /\ ret'.i = ret.i
          \/ /\ ret'.links = ret.links
             /\ ret'.i = ret.i + 1]_vars

\* the loop has run at most 2n - 1 times, the index is a place of the list,
\* and the loop is over with the index at length - 1
SweepWithinList ==
    /\ ret.iters <= 2 * Len(call.links) - 1
    /\ ret.i \in 0..(Len(ret.links) - 1)
    /\ pc = "swept" => ret.i = Len(ret.links) - 1

\* C20 as claimed: the sweep ends on every input list; an iteration deletes
\* one element and leaves the index or deletes nothing and advances it by
\* one; the loop ends with the index at length - 1 after at most 2n - 1
\* iterations for n input annotations, the index never outside the list.
C20_SweepOnEveryList ==
    SweepEnds /\ SweepIterates /\ [](Sweeping => SweepWithinList)

\* C20: the same on every input list that is not empty; on the empty list
\* the loop body never runs, and index 0 is left where no list element is.
\* The list the sweep ends with is the one pruneOverlaps leaves.
C20_SweepOnNonEmptyList ==
    /\ SweepEnds
    /\ SweepIterates
    /\ [](Sweeping =>
            /\ IF call.links # <<>> THEN SweepWithinList
               ELSE ret.iters = 0 /\ ret.i = 0 /\ ret.links = <<>>
            /\ pc = "swept" => ret.links = PruneOverlaps(call.links))

\* C20 witness: a sweep of three annotations is over after an iteration that
\* deleted and one that advanced.
C20_Witness ==
    /\ pc = "swept"
    /\ Len(call.links) = 3
    /\ ret.iters = 2
    /\ Len(ret.links) = 2
    /\ ret.i = 1

\* the defaultScheme argument of the call, "" when it was not given
GivenDefaultScheme == IF call.defaultScheme = <<>> THEN <<>> ELSE call.defaultScheme[1]

\* the schemes argument of the call was not given or is the empty array
NoSchemesGiven == call.schemes = <<>> \/ call.schemes[1] = <<>>

\* C21 as claimed: when addLinks is called with schemes null or empty, the
\* url of every accepted match is defaultScheme, in whatever casing,
\* followed by the whole (transformed) text of the match, also when that
\* text begins with defaultScheme already.
C21_DefaultSchemePrependedToAll ==
    Returned("addLinks") /\ ret.scanned /\ NoSchemesGiven =>
        \A k \in 1..Len(ret.result.links) :
            LET l == ret.result.links[k]
                t == TransformFilter(call.transformFilter, Substring(call.text, l))
            IN  /\ Len(l.url) = Len(GivenDefaultScheme) + Len(t)
                /\ ToLowerCase(l.url) = ToLowerCase(GivenDefaultScheme \o t)

\* C22: pruneOverlaps leaves at least one annotation of every list that has
\* one; so an addAutoLinks call that ran its detectors returns false only
\* when no enabled detector had a match its filter accepted.
C22_PruneNeverEmpties ==
    /\ Pruned /\ call.links # <<>> => ret.first # <<>>
    /\ Returned("addAutoLinks") /\ ret.scanned =>
          /\ ret.gathered # <<>> => ret.pruned # <<>>
          /\ ret.result = NoneFound =>
                /\ NotPrecededByAt(call.text, WebMatches) = <<>>
                /\ EmailMatches = <<>>

\* C22 witness: addAutoLinks gathered three annotations and pruneOverlaps
\* left one of them, which is returned.
C22_Witness ==
    /\ Returned("addAutoLinks")
    /\ Len(ret.gathered) = 3
    /\ Len(ret.pruned) = 1
    /\ ret.result = [kind |-> "list", links |-> ret.pruned]

\* the annotation at place k of the input is in the list pruneOverlaps left
Survives(k) == PlacesOf(call.links[k], ret.first) # {}

Others(k) == (1..Len(call.links)) \ {k}

\* C23: an annotation strictly longer than every other annotation of the
\* input is in the list pruneOverlaps leaves.
C23_StrictlyLongestSurvives ==
    Pruned =>
        \A k \in 1..Len(call.links) :
            (\A j \in Others(k) : SpanLen(call.links[k]) > SpanLen(call.links[j]))
                => Survives(k)

\* C23 witness: of three annotations the strictly longest starts after
\* another one, overlaps both others and is the only one left.
C23_Witness ==
    /\ Pruned
    /\ Len(call.links) = 3
    /\ \E k \in 1..3 :
          /\ \A j \in Others(k) :
                /\ SpanLen(call.links[k]) > SpanLen(call.links[j])
                /\ ~Disjoint(call.links[k], call.links[j])
          /\ \E j \in Others(k) : call.links[j].start < call.links[k].start
          /\ ret.first = <<call.links[k]>>

\* C24: an annotation that intersects no other annotation of the input is
\* in the list pruneOverlaps leaves, and every annotation pruneOverlaps
\* removed intersects another annotation of the input that is at least as
\* long.
C24_IsolatedSurvives ==
    Pruned =>
        \A k \in 1..Len(call.links) :
            /\ (\A j \in Others(k) : Disjoint(call.links[k], call.links[j])) => Survives(k)
            /\ ~Survives(k) =>
                  \E j \in Others(k) :
                      /\ ~Disjoint(call.links[k], call.links[j])
                      /\ SpanLen(call.links[j]) >= SpanLen(call.links[k])

\* C24 witness: of three annotations one touches a longer one without
\* intersecting any and is left, and one of the other two is removed.
C24_Witness ==
    /\ Pruned
    /\ Len(call.links) = 3
    /\ Len(ret.first) = 2
    /\ \E k \in 1..3 :
          /\ \A j \in Others(k) : Disjoint(call.links[k], call.links[j])
          /\ \E j \in Others(k) :
                /\ call.links[k].end = call.links[j].start
                /\ SpanLen(call.links[j]) > SpanLen(call.links[k])
          /\ Survives(k)

\* the places of the input whose annotation has the span of the one at k
SameSpan(k) == {j \in 1..Len(call.links) : SpanOf(call.links[j]) = SpanOf(call.links[k])}

\* the web annotation at place w and the email annotation at place e of the
\* gathered list have one span
BothDetectors(w, e) ==
    /\ w \in 1..ret.webCount
    /\ e \in (ret.webCount + 1)..Len(ret.gathered)
    /\ SpanOf(ret.gathered[w]) = SpanOf(ret.gathered[e])

Returns(l) == ret.result.kind = "list" /\ PlacesOf(l, ret.result.links) # {}

\* C25 as claimed: of several input annotations with the same start and
\* end pruneOverlaps leaves exactly one, the first of them in the input; and
\* when both detectors of addAutoLinks match one span, the web annotation of
\* that span is returned and the email annotation is not.
C25_FirstOfIdenticalKept ==
    /\ Pruned =>
          \A k \in 1..Len(call.links) :
              Cardinality(SameSpan(k)) >= 2 =>
                  {j \in SameSpan(k) : Survives(j)} = {Min(SameSpan(k))}
    /\ Returned("addAutoLinks") /\ ret.scanned =>
          \A w, e \in 1..Len(ret.gathered) :
              BothDetectors(w, e) => Returns(ret.gathered[w]) /\ ~Returns(ret.gathered[e])

\* C25: of several input annotations with the same start and end
\* pruneOverlaps leaves at most one, never another than the first of them in
\* the input, and leaves that first one whenever no annotation of another
\* span intersects them; and when both detectors of addAutoLinks match one
\* span, the email annotation of that span is not returned, and the web
\* annotation is whenever no annotation of another span intersects it.
C25_OnlyFirstOfIdenticalKept ==
    /\ Pruned =>
          \A k \in 1..Len(call.links) :
              Cardinality(SameSpan(k)) >= 2 =>
                  /\ {j \in SameSpan(k) : Survives(j)} \subseteq {Min(SameSpan(k))}
                  /\ (\A j \in (1..Len(call.links)) \ SameSpan(k) :
                          Disjoint(call.links[j], call.links[k]))
                        => Survives(Min(SameSpan(k)))
    /\ Returned("addAutoLinks") /\ ret.scanned =>
          \A w, e \in 1..Len(ret.gathered) :
              BothDetectors(w, e) =>
                  /\ ~Returns(ret.gathered[e])
                  /\ (\A j \in 1..Len(ret.gathered) :
                          \/ SpanOf(ret.gathered[j]) = SpanOf(ret.gathered[w])
                          \/ Disjoint(ret.gathered[j], ret.gathered[w]))
                        => Returns(ret.gathered[w])

\* C25 witness: both detectors of addAutoLinks matched one span after an
\* annotation that ends before it, and the web annotation of the span is
\* returned behind that one.
C25_Witness ==
    /\ Returned("addAutoLinks")
    /\ ret.scanned
    /\ Len(ret.result.links) = 2
    /\ \E w, e \in 1..Len(ret.gathered) :
          /\ BothDetectors(w, e)
          /\ ret.result.links[2] = ret.gathered[w]
          /\ ret.result.links[1].end <= ret.gathered[w].start
====
